---- MODULE Spec2Model ----
(***************************************************************************)
(* Model of import/logseq/convert.py: the in-place conversion of Logseq    *)
(* namespace files (foo___bar.md) into folders (foo/bar.md).               *)
(*                                                                         *)
(* A file name is a sequence of one-character strings, a path is a         *)
(* sequence of names.  The filesystem maps every existing canonical path   *)
(* (the empty path is the working directory the program is started in) to  *)
(* a node: a directory, or a regular file whose id is the path it had in   *)
(* the initial filesystem (its content).                                   *)
(***************************************************************************)
EXTENDS Naturals, Sequences, FiniteSets

VARIABLES fs, pc, run, directory, response, todo, globbed, converted_count,
          result, exit_status, fsStart, moves, lastAt, prev

vars == <<fs, pc, run, directory, response, todo, globbed, converted_count,
          result, exit_status, fsStart, moves, lastAt, prev>>

-----------------------------------------------------------------------------
(* Bounds of the model *)

\* longest base name (stem) of a namespace file put in the initial directory
MaxStemLen == 9
\* most namespace files put in the initial directory
MaxEntries == 2
\* most invocations of the program on the same filesystem
MaxRuns == 2

-----------------------------------------------------------------------------
(* Strings *)

SEP == <<"_", "_", "_">>
MD == <<".", "m", "d">>
DOT == <<".">>
DOTDOT == <<".", ".">>

Last(s) == s[Len(s)]
Front(s) == SubSeq(s, 1, Len(s) - 1)

MatchAt(s, pat, i) == /\ i >= 1
                      /\ i + Len(pat) - 1 <= Len(s)
                      /\ SubSeq(s, i, i + Len(pat) - 1) = pat

\* pat in s
Contains(s, pat) == \E i \in 1..Len(s) : MatchAt(s, pat, i)

\* s.find(pat) + 1, for a pat that s contains
Find(s, pat) == CHOOSE i \in 1..Len(s) :
                    MatchAt(s, pat, i) /\ \A j \in 1..(i - 1) : ~MatchAt(s, pat, j)

\* s.rfind(".") + 1, or 0
RFindDot(s) == IF \E i \in 1..Len(s) : s[i] = "."
               THEN CHOOSE i \in 1..Len(s) :
                        s[i] = "." /\ \A j \in (i + 1)..Len(s) : s[j] # "."
               ELSE 0

\* str.split("___"): cut at the leftmost occurrences, left to right
RECURSIVE split(_)
split(s) == IF Contains(s, SEP)
            THEN LET i == Find(s, SEP)
                 IN  <<SubSeq(s, 1, i - 1)>> \o split(SubSeq(s, i + Len(SEP), Len(s)))
            ELSE <<s>>

\* PurePath.stem: the name without its last suffix; a leading or a trailing dot
\* starts no suffix
stem(name) == LET i == RFindDot(name)
              IN  IF 1 < i /\ i < Len(name) THEN SubSeq(name, 1, i - 1) ELSE name

\* fnmatch of a directory entry's name against "*.md"
GlobMatch(name) == MatchAt(name, MD, Len(name) - Len(MD) + 1)

\* str.lower() on the characters an answer is made of
LowerChar(c) == CASE c = "Y" -> "y"
                  [] c = "E" -> "e"
                  [] c = "S" -> "s"
                  [] c = "N" -> "n"
                  [] OTHER -> c

lower(s) == [i \in 1..Len(s) |-> LowerChar(s[i])]

\* str.strip(): leading and trailing whitespace removed
RECURSIVE lstrip(_)
lstrip(s) == IF s # <<>> /\ Head(s) = " " THEN lstrip(Tail(s)) ELSE s

RECURSIVE rstrip(_)
rstrip(s) == IF s # <<>> /\ Last(s) = " " THEN rstrip(Front(s)) ELSE s

strip(s) == rstrip(lstrip(s))

-----------------------------------------------------------------------------
(* Paths and the filesystem *)

DirNode == [kind |-> "dir", id |-> <<>>]
FileNode(id) == [kind |-> "file", id |-> id]

\* no path: a path has no empty component
NoPath == << <<>> >>

Parent(p) == IF p = <<>> THEN <<>> ELSE Front(p)

Exists(f, p) == p \in DOMAIN f
IsDir(f, p) == p \in DOMAIN f /\ f[p].kind = "dir"
IsFile(f, p) == p \in DOMAIN f /\ f[p].kind = "file"

\* p lies in the subtree of d (d itself included)
Under(p, d) == Len(p) >= Len(d) /\ SubSeq(p, 1, Len(d)) = d

\* pathlib's "/": an empty or "." part adds no component
PathJoin(p, part) == IF part = <<>> \/ part = DOT THEN p ELSE Append(p, part)

\* the kernel's path resolution from the working directory: every component
\* is looked up in a directory, ".." is the parent (of the root, the root);
\* the last component need not exist
RECURSIVE Walk(_, _, _)
Walk(f, cur, comps) ==
    IF comps = <<>> THEN cur
    ELSE IF ~IsDir(f, cur) THEN NoPath
    ELSE Walk(f,
              IF Head(comps) = DOTDOT THEN Parent(cur) ELSE Append(cur, Head(comps)),
              Tail(comps))

Resolve(f, path) == Walk(f, <<>>, path)

\* Path.exists()
PathExists(f, path) == Exists(f, Resolve(f, path))

\* the names of the entries of directory d
Listing(f, d) == {Last(p) : p \in {q \in DOMAIN f : Len(q) = Len(d) + 1 /\ Under(q, d)}}

\* Path.glob("*.md"): the matching entries of the listing taken when the
\* iteration starts; nothing when the path is no directory
Glob(f, path) == LET d == Resolve(f, path)
                 IN  IF IsDir(f, d) THEN {n \in Listing(f, d) : GlobMatch(n)} ELSE {}

Put(f, p, node) == [q \in DOMAIN f \cup {p} |-> IF q = p THEN node ELSE f[q]]

\* os.rename(s, d) of an existing s to a d that is absent or a regular file,
\* s no directory when d is a file: the subtree of s becomes the subtree of d
Rename(f, s, d) ==
    IF s = d THEN f
    ELSE LET kept == {q \in DOMAIN f : ~Under(q, s) /\ q # d}
             moved == {q \in DOMAIN f : Under(q, s)}
             To(q) == d \o SubSeq(q, Len(s) + 1, Len(q))
         IN  [q \in kept \cup {To(m) : m \in moved} |->
                IF q \in kept THEN f[q]
                ELSE f[CHOOSE m \in moved : To(m) = q]]

\* Path.mkdir(exist_ok=True): an existing directory is reused; an existing
\* file, a missing parent or a parent that is a file raise
mkdir(f, path) ==
    LET r == Resolve(f, path)
    IN  IF r = NoPath THEN [ok |-> FALSE, fs |-> f]
        ELSE IF Exists(f, r) THEN [ok |-> IsDir(f, r), fs |-> f]
        ELSE [ok |-> TRUE, fs |-> Put(f, r, DirNode)]

\* Move as a copy: the source is left in place
MoveCopy(f, src, dst) ==
    LET s == Resolve(f, src)
        d == Resolve(f, dst)
        real == IF IsDir(f, d) THEN Append(d, Last(src)) ELSE d
    IN  IF ~IsFile(f, s) \/ d = NoPath \/ IsDir(f, real)
        THEN [ok |-> FALSE, fs |-> f, dst |-> NoPath]
        ELSE [ok |-> TRUE, fs |-> Put(f, real, f[s]), dst |-> real]

\* Move that leaves an existing destination file alone and reports success
MoveKeepExisting(f, src, dst) ==
    LET s == Resolve(f, src)
        d == Resolve(f, dst)
    IN  IF ~Exists(f, s) \/ d = NoPath \/ IsDir(f, d)
        THEN [ok |-> FALSE, fs |-> f, dst |-> NoPath]
        ELSE IF IsFile(f, d) THEN [ok |-> TRUE, fs |-> f, dst |-> d]
        ELSE [ok |-> TRUE, fs |-> Rename(f, s, d), dst |-> d]

\* shutil.move(src, dst): into dst when dst is a directory (an entry of the
\* same name there raises), else a rename that replaces a regular file
Move(f, src, dst) ==
    LET s == Resolve(f, src)
        d == Resolve(f, dst)
        real == IF IsDir(f, d) THEN Append(d, Last(src)) ELSE d
        Raise == [ok |-> FALSE, fs |-> f, dst |-> NoPath]
    IN  IF ~Exists(f, s) \/ d = NoPath THEN Raise
        ELSE IF IsDir(f, d) /\ s = d THEN [ok |-> TRUE, fs |-> f, dst |-> d]
        ELSE IF IsDir(f, d) /\ Exists(f, real) THEN Raise
        ELSE IF IsDir(f, s) /\ IsFile(f, real) THEN Raise
        ELSE IF Under(real, s) /\ real # s THEN Raise
        ELSE [ok |-> TRUE, fs |-> Rename(f, s, real), dst |-> real]

-----------------------------------------------------------------------------
(* The filesystems the program is started on *)

A == <<"a">>
T == <<"t">>
F == <<"f">>
X == <<"x">>

\* the values of a namespace segment: empty or a plain name
Segs == {<<>>, A}

RECURSIVE JoinSep(_)
JoinSep(l) == IF Len(l) = 1 THEN l[1] ELSE l[1] \o SEP \o JoinSep(Tail(l))

\* the names of namespace files: two segments or more joined by the separator,
\* and one whose first segment is the parent directory
CandNames ==
    LET lists == UNION {[1..n -> Segs] : n \in 2..(MaxStemLen \div Len(SEP) + 1)}
    IN  {JoinSep(l) \o MD : l \in {x \in lists : Len(JoinSep(x)) <= MaxStemLen}}
            \cup {DOTDOT \o SEP \o A \o MD}

RECURSIVE SubsetsUpTo(_, _)
SubsetsUpTo(S, k) == IF k = 0 THEN {{}}
                     ELSE LET less == SubsetsUpTo(S, k - 1)
                          IN  less \cup {x \cup {e} : x \in less, e \in S}

\* what else the directory tree holds: nothing; a regular file a; a folder a
\* holding a.md; a page a.md; a directory a.md; a directory named as a
\* namespace file
PreConfigs ==
    { {},
      {[path |-> <<T, A>>, kind |-> "file"]},
      {[path |-> <<T, A>>, kind |-> "dir"], [path |-> <<T, A, A \o MD>>, kind |-> "file"]},
      {[path |-> <<T, A \o MD>>, kind |-> "file"]},
      {[path |-> <<T, A \o MD>>, kind |-> "dir"]},
      {[path |-> <<T, A \o SEP \o A \o MD>>, kind |-> "dir"]} }

\* the working directory holds the target directory t and a regular file f
MkFS(E, P) ==
    LET pre == {x.path : x \in P}
        dom == {<<>>, <<T>>, <<F>>} \cup pre \cup {<<T, n>> : n \in E}
    IN  [p \in dom |->
            IF p \in pre
            THEN IF (CHOOSE x \in P : x.path = p).kind = "dir" THEN DirNode ELSE FileNode(p)
            ELSE IF p \in {<<>>, <<T>>} THEN DirNode ELSE FileNode(p)]

InitialFS == {MkFS(E, P) : E \in SubsetsUpTo(CandNames, MaxEntries), P \in PreConfigs}

\* sys.argv[1:]: the target directory, a regular file, a path that does not
\* exist, no argument, two arguments
ArgvPool == {<<<<T>>>>, <<<<F>>>>, <<<<X>>>>, <<>>, <<<<T>>, <<T>>>>}

\* the line typed at the prompt
Responses == { <<"y">>, <<" ", "Y", "E", "S", " ">>,
               <<>>, <<"N">>, <<"y", " ", "e", "s">> }

-----------------------------------------------------------------------------
(* The program *)

Init == /\ fs \in InitialFS
        /\ pc = "start"
        /\ run = 1
        /\ directory = <<>>
        /\ response = <<>>
        /\ todo = {}
        /\ globbed = {}
        /\ converted_count = 0
        /\ result = "none"
        /\ exit_status = 0
        /\ fsStart = fs
        /\ moves = {}
        /\ lastAt = <<>>
        /\ prev = [directory |-> <<>>, result |-> "none"]

\* main, lines 62-73: the argument count is checked, the warning printed
MainArgs(argv) ==
    /\ pc = "start"
    /\ IF Len(argv) # 1
       THEN /\ pc' = "exit"
            /\ exit_status' = 1
            /\ UNCHANGED directory
       ELSE /\ pc' = "prompt"
            /\ directory' = argv[1]
            /\ UNCHANGED exit_status
    /\ UNCHANGED <<fs, run, response, todo, globbed, converted_count, result,
                   fsStart, moves, lastAt, prev>>

\* Proceeds for every answer that starts with a y
ProceedsPrefix(r) == strip(lower(r)) # <<>> /\ Head(strip(lower(r))) = "y"

\* the answers main goes on with
Proceeds(r) == strip(lower(r)) \in {<<"y">>, <<"y", "e", "s">>}

\* main, lines 76-79: the confirmation
MainConfirm(r) ==
    /\ pc = "prompt"
    /\ response' = strip(lower(r))
    /\ IF Proceeds(r)
       THEN /\ pc' = "call"
            /\ UNCHANGED exit_status
       ELSE /\ pc' = "exit"
            /\ exit_status' = 0
    /\ UNCHANGED <<fs, run, directory, todo, globbed, converted_count, result,
                   fsStart, moves, lastAt, prev>>

\* convert_namespace_to_folders, lines 22-31: the existence check and the
\* listing; on failure main exits with status 1 (lines 83-85)
ConvertBegin ==
    /\ pc = "call"
    /\ IF ~PathExists(fs, directory)
       THEN /\ result' = "false"
            /\ pc' = "exit"
            /\ exit_status' = 1
            /\ UNCHANGED <<todo, globbed, converted_count>>
       ELSE /\ converted_count' = 0
            /\ globbed' = Glob(fs, directory)
            /\ todo' = Glob(fs, directory)
            /\ pc' = "loop"
            /\ UNCHANGED <<result, exit_status>>
    /\ UNCHANGED <<fs, run, directory, response, fsStart, moves, lastAt, prev>>

\* MakeFolders with every folder made directly in the first directory
RECURSIVE MakeFoldersFlat(_, _, _)
MakeFoldersFlat(f, folder_path, folders) ==
    IF folders = <<>> THEN [ok |-> TRUE, fs |-> f, folder_path |-> folder_path]
    ELSE LET next == PathJoin(folder_path, Head(folders))
             made == mkdir(f, next)
         IN  IF ~made.ok THEN [ok |-> FALSE, fs |-> made.fs, folder_path |-> next]
             ELSE IF Tail(folders) = <<>>
                  THEN [ok |-> TRUE, fs |-> made.fs, folder_path |-> next]
                  ELSE MakeFoldersFlat(made.fs, folder_path, Tail(folders))

\* lines 42-45: the folders of parts[:-1], created one inside the other
RECURSIVE MakeFolders(_, _, _)
MakeFolders(f, folder_path, folders) ==
    IF folders = <<>> THEN [ok |-> TRUE, fs |-> f, folder_path |-> folder_path]
    ELSE LET next == PathJoin(folder_path, Head(folders))
             made == mkdir(f, next)
         IN  IF made.ok THEN MakeFolders(made.fs, next, Tail(folders))
             ELSE [ok |-> FALSE, fs |-> made.fs, folder_path |-> next]

\* ConvertOne with a failed folder creation swallowed: the file is counted
ConvertOneSwallow(f, dir_path, name) ==
    LET parts == split(stem(name))
        made == MakeFolders(f, dir_path, Front(parts))
        new_file_path == PathJoin(made.folder_path, Last(parts) \o MD)
    IN  IF ~made.ok THEN [ok |-> TRUE, fs |-> made.fs, dst |-> NoPath]
        ELSE Move(made.fs, Append(dir_path, name), new_file_path)

\* lines 39-53 for one namespace file: the folders, then the move
ConvertOne(f, dir_path, name) ==
    LET parts == split(stem(name))
        made == MakeFolders(f, dir_path, Front(parts))
        new_file_path == PathJoin(made.folder_path, Last(parts) \o MD)
        mv == Move(made.fs, Append(dir_path, name), new_file_path)
    IN  IF ~made.ok THEN [ok |-> FALSE, fs |-> made.fs, dst |-> NoPath]
        ELSE mv

\* one iteration of the loop of lines 31-54, for any entry of the listing not
\* yet visited; an exception ends the program with a traceback and status 1
ConvertFile(name) ==
    /\ pc = "loop"
    /\ name \in todo
    /\ todo' = todo \ {name}
    /\ IF ~Contains(stem(name), SEP)
       THEN UNCHANGED <<fs, pc, converted_count, result, exit_status, moves, lastAt>>
       ELSE LET r == ConvertOne(fs, directory, name)
            IN  /\ fs' = r.fs
                /\ IF r.ok
                   THEN /\ converted_count' = converted_count + 1
                        /\ moves' = moves \cup {[name |-> name,
                                              src |-> Resolve(fs, Append(directory, name)),
                                              dst |-> r.dst]}
                        /\ lastAt' = [p \in DOMAIN lastAt \cup {r.dst} |->
                                         IF p = r.dst THEN name ELSE lastAt[p]]
                        /\ UNCHANGED <<pc, result, exit_status>>
                   ELSE /\ pc' = "exit"
                        /\ result' = "raised"
                        /\ exit_status' = 1
                        /\ UNCHANGED <<converted_count, moves, lastAt>>
    /\ UNCHANGED <<run, directory, response, globbed, fsStart, prev>>

\* lines 56-57 and 81-82: the count is reported, the program ends
ConvertEnd ==
    /\ pc = "loop"
    /\ todo = {}
    /\ result' = "true"
    /\ pc' = "exit"
    /\ exit_status' = 0
    /\ UNCHANGED <<fs, run, directory, response, todo, globbed, converted_count,
                   fsStart, moves, lastAt, prev>>

\* the program is started again on the filesystem a successful run left
Rerun ==
    /\ pc = "exit"
    /\ result = "true"
    /\ IsDir(fs, Resolve(fs, directory))
    /\ run < MaxRuns
    /\ run' = run + 1
    /\ prev' = [directory |-> directory, result |-> result]
    /\ pc' = "start"
    /\ directory' = <<>>
    /\ response' = <<>>
    /\ todo' = {}
    /\ globbed' = {}
    /\ converted_count' = 0
    /\ result' = "none"
    /\ exit_status' = 0
    /\ fsStart' = fs
    /\ moves' = {}
    /\ lastAt' = <<>>
    /\ UNCHANGED fs

Next == \/ \E argv \in ArgvPool : MainArgs(argv)
        \/ \E r \in Responses : MainConfirm(r)
        \/ ConvertBegin
        \/ \E name \in todo : ConvertFile(name)
        \/ ConvertEnd
        \/ Rerun

Spec == Init /\ [][Next]_vars

-----------------------------------------------------------------------------
(* The claims *)

\* the directory the run works on, in the filesystem the run started on
Target == Resolve(fsStart, directory)

\* the run has called convert_namespace_to_folders and it is over
RunOver == pc = "exit" /\ result # "none"

Namespaced(name) == Contains(stem(name), SEP)

\* the path the specification names for a namespace file: the target
\* directory, the segments but the last as folders, the last segment plus .md
ExpectedPath(name) == LET s == split(stem(name))
                      IN  directory \o Front(s) \o <<Last(s) \o MD>>

\* where the kernel finds a path written with "/" between its components:
\* empty and "." components name the directory they stand in
RECURSIVE Plain(_)
Plain(path) == IF path = <<>> THEN <<>>
               ELSE IF Head(path) = <<>> \/ Head(path) = DOT THEN Plain(Tail(path))
               ELSE <<Head(path)>> \o Plain(Tail(path))

Lookup(f, path) == Resolve(f, Plain(path))

\* the move of the run that was the last one to a destination
LastMove(p) == CHOOSE m \in moves : m.name = lastAt[p]

NameAAA == A \o SEP \o A \o SEP \o A \o MD
NameAA == A \o SEP \o A \o MD

C2_FailureDoesNotAbort ==
    RunOver => \A n \in todo : ~Namespaced(n)

\* C3 as stated: on a path that is no existing directory the conversion
\* returns failure and leaves the filesystem unchanged
C3_NotADirectoryFails ==
    (RunOver /\ ~IsDir(fsStart, Target)) => (result = "false" /\ fs = fsStart)

\* C4 as stated: a top-level .md file whose base name does not contain the
\* separator is at the same path after the run as before it
C4_PlainFilesUntouched ==
    \A n \in globbed :
        (~Namespaced(n) /\ IsFile(fsStart, Append(Target, n))) =>
            /\ Exists(fs, Append(Target, n))
            /\ fs[Append(Target, n)] = fsStart[Append(Target, n)]

\* C5: after a successful run no entry at the top level of the target
\* directory has a base name containing the separator, and a second run on the
\* same directory converts nothing and leaves the filesystem unchanged
C5_SecondRunFindsNothing ==
    /\ (pc = "exit" /\ result = "true" /\ IsDir(fs, Resolve(fs, directory))) =>
          \A n \in Glob(fs, directory) : ~Namespaced(n)
    /\ (run > 1 /\ prev.result = "true" /\ prev.directory = directory
            /\ pc \in {"loop", "exit"}) =>
          /\ \A n \in globbed : ~Namespaced(n)
          /\ converted_count = 0
          /\ fs = fsStart
          /\ result # "raised"

\* a second run on the directory whose first run moved a___a.md to a/a.md is over
C5_Witness ==
    /\ run > 1 /\ pc = "exit" /\ result = "true"
    /\ prev.directory = directory /\ directory = <<T>>
    /\ IsFile(fs, <<T, A, A \o MD>>)
    /\ fs[<<T, A, A \o MD>>].id = <<T, NameAA>>

\* the files of the starting filesystem that are not at their path any more
FilesNotInPlace ==
    {p \in DOMAIN fsStart : IsFile(fsStart, p) /\ ~(Exists(fs, p) /\ fs[p] = fsStart[p])}

\* the entries of the target directory that are not at their path any more
EntriesMovedAway ==
    {p \in DOMAIN fsStart : Len(p) = Len(Target) + 1 /\ Under(p, Target) /\ ~Exists(fs, p)}

Yes == {<<"y">>, <<"y", "e", "s">>}

\* C7: the conversion is started only when the answer, lower-cased and
\* stripped, is y or yes; after any other answer the program exits with
\* status 0, the conversion was never called and the filesystem is unchanged
C7_OnlyAfterConfirmation ==
    /\ (pc \in {"call", "loop"} \/ result # "none") => response \in Yes
    /\ (pc = "exit" /\ directory # <<>> /\ response \notin Yes) =>
          /\ exit_status = 0
          /\ result = "none"
          /\ fs = fsStart
          /\ moves = {}

\* the answer N has ended the program on a directory that holds a namespace file
C7_Witness ==
    /\ pc = "exit" /\ response = <<"n">> /\ directory = <<T>>
    /\ \E n \in Glob(fs, directory) : Namespaced(n)

\* C8: a move to a path that already holds a file (there before the run, or
\* put there by an earlier candidate of the run) replaces it: the path holds
\* what the last candidate moved there was, and the candidate is counted
C8_LastWriteWins ==
    /\ \A m \in moves :
        (IsFile(fsStart, m.dst) \/ \E o \in moves : o.name # m.name /\ o.dst = m.dst) =>
            /\ Exists(fs, m.dst)
            /\ fs[m.dst] = fsStart[LastMove(m.dst).src]
    /\ pc = "loop" \/ RunOver => converted_count = Cardinality(moves)

\* two candidates were moved to the same path in a run that returned True
C8_Witness ==
    /\ pc = "exit" /\ result = "true"
    /\ \E m, o \in moves :
        /\ o.name # m.name /\ o.dst = m.dst
        /\ lastAt[m.dst] = m.name
        /\ fs[m.dst].id = m.src

\* C9 as stated: every folder the run creates and every path it moves a file
\* to lies in the subtree of the target directory
C9_StaysInTarget ==
    pc \in {"loop", "exit"} =>
        /\ \A p \in DOMAIN fs :
              (~Exists(fsStart, p) \/ fs[p] # fsStart[p]) => Under(p, Target)
        /\ \A m \in moves : Under(m.dst, Target)

\* the .md files below the working directory
MdFiles(f) == {p \in DOMAIN f : IsFile(f, p) /\ GlobMatch(Last(p))}

\* C10 as stated: two distinct candidates never get the same destination
\* path, and when no destination was there before the run the number of .md
\* files is the same after the run as before it
C10_DestinationsInjective ==
    /\ \A m, o \in moves : m.name # o.name => m.dst # o.dst
    /\ (pc = "exit" /\ result = "true" /\ \A m \in moves : ~Exists(fsStart, m.dst)) =>
          Cardinality(MdFiles(fs)) = Cardinality(MdFiles(fsStart))

====
